---- MODULE Spec2Model ----
(***************************************************************************)
(* Model of jsonreststores-3: the positioning plugin (src/positioning.js), *)
(* the MySQL backend plugin and the JsonRestStores orchestrator with its   *)
(* HookManager (src/unnamed/part_001).                                     *)
(*                                                                         *)
(* The database table is a set of rows.  connection.queryP is the promise  *)
(* version of connection.query built by util.promisify                     *)
(* (positioning.js:34-37, part_001:294-296): it resolves to the result of  *)
(* the statement, which for a SELECT is the array of rows.  Every round    *)
(* trip is one atomic step of the database; the JavaScript that runs       *)
(* between two awaits touches only the request and is folded into the step *)
(* of the query it follows.                                                *)
(*                                                                         *)
(* JavaScript values are integers: Undefined and Null are two negative     *)
(* tags, identifiers and positions are the non-negative numbers.           *)
(*                                                                         *)
(* store is the JsonRestStores instance the hooks are handed: the handle*  *)
(* flags its constructor sets and its idProperty, which the constructor    *)
(* leaves unset (the owner of the store may have assigned it).             *)
(* positioning is the call of createPositioningPlugin (the options passed  *)
(* and its outcome); cb is the Condition Builder of _calculatePosition     *)
(* applied on its own to a field list, a body and a record.                *)
(***************************************************************************)
EXTENDS Integers, Sequences, FiniteSets, TLC

VARIABLES table, nextId, req, budget, slots, plugins, positioning, cb, store

vars == <<table, nextId, req, budget, slots, plugins, positioning, cb, store>>

(***************************************************************************)
(* Bounds of the model.                                                    *)
(***************************************************************************)
MaxId == 4
MaxPosition == 4
MaxRequests == 4
MaxConcurrentRequests == 2
MaxStoreRequests == 1
MaxFilterFields == 2
MaxPlugins == 3

Undefined == 0 - 2
Null == 0 - 1

Req == {1, 2}
Ids == 1..MaxId

(* positionFilter: ['category_id'], as in the usage example of the plugin. *)
positionFilter == <<"category_id">>
positionField == "position"
beforeIdField == "beforeId"

(* Values a request body may carry for the partition key, and the          *)
(* directive values: absent, explicit null, or an identifier.              *)
BodyKeyValues == {Undefined, Null, 5}
Directives == {Undefined, Null} \cup Ids

(***************************************************************************)
(* JavaScript helpers.                                                     *)
(***************************************************************************)
(* x == null : true of null and undefined *)
LooseNull(x) == x \in {Null, Undefined}

(* truthiness of a number-or-absent value *)
Truthy(x) == x \notin {Null, Undefined, 0}

(* a ?? b *)
Coalesce(a, b) == IF LooseNull(a) THEN b ELSE a

(* a || b *)
OrElse(a, b) == IF Truthy(a) THEN a ELSE b

SetMax(S) == CHOOSE m \in S : \A x \in S : x <= m

(***************************************************************************)
(* Condition Builder: filterConditions / filterValues / wherePositionFilter*)
(***************************************************************************)
(* Variant: an explicit null of the body falls back to the record too.     *)
FilterValueNullFallsBack(body, record, field) ==
    IF ~LooseNull(body[field]) THEN body[field]
    ELSE IF record = <<>> THEN Undefined
    ELSE record[1][field]

(* body[field] when the body defines it, else request.record &&            *)
(* request.record[field]; the record is a sequence of at most one row.     *)
FilterValue(body, record, field) ==
    IF body[field] # Undefined THEN body[field]
    ELSE IF record = <<>> THEN Undefined
    ELSE record[1][field]

(* for (const field of positionFilter): one condition per field, in the    *)
(* order of the list; `field` IS NULL for a null or undefined value, else  *)
(* `field` = ? with the value pushed to filterValues.                      *)
positionFilterConditions(fields, body, record) ==
    [i \in 1..Len(fields) |->
        LET val == FilterValue(body, record, fields[i])
        IN  IF LooseNull(val)
            THEN [field |-> fields[i], isNull |-> TRUE, value |-> Null]
            ELSE [field |-> fields[i], isNull |-> FALSE, value |-> val]]

filterConditions(body, record) ==
    positionFilterConditions(positionFilter, body, record)

(* filterValues: the values pushed, one per `field` = ? condition, in the  *)
(* order the conditions were built.                                        *)
filterValues(conds) ==
    LET pushed == SelectSeq(conds, LAMBDA c : ~c.isNull)
    IN  [i \in 1..Len(pushed) |-> pushed[i].value]

(* The text of the conditions, which carries no value: each ? is bound to  *)
(* the next element of the values passed with the statement.               *)
ConditionText(conds) ==
    [i \in 1..Len(conds) |-> [field |-> conds[i].field, isNull |-> conds[i].isNull]]

Placeholder(text, i) == Cardinality({j \in 1..i : ~text[j].isNull})

(* The predicate text joined with AND ('1=1' for no condition), evaluated  *)
(* on a row with the values bound to its placeholders from left to right.  *)
WhereBound(row, text, values) ==
    \A i \in DOMAIN text :
        IF text[i].isNull
        THEN row[text[i].field] = Null
        ELSE /\ Placeholder(text, i) \in DOMAIN values
             /\ row[text[i].field] = values[Placeholder(text, i)]

(* The SQL predicate: the conjunction of the conditions, '1=1' when empty. *)
wherePositionFilter(row, conds) ==
    \A i \in DOMAIN conds :
        IF conds[i].isNull
        THEN row[conds[i].field] = Null
        ELSE row[conds[i].field] = conds[i].value

(* The Condition Builder applied on its own: a configured field list, a    *)
(* request body and the fetched record (absent, or a row whose columns may *)
(* be missing or NULL), then the conditions and values it builds.          *)
FieldNames == {"category_id", "owner_id"}
FilterLists == UNION {[1..n -> FieldNames] : n \in 0..MaxFilterFields}
BuilderBodies == [FieldNames -> BodyKeyValues]
BuilderRows == [FieldNames -> {Undefined, Null, 6}]
BuilderRecords == {<< >>} \cup {<<row>> : row \in BuilderRows}

NoBuilder ==
    [pc |-> "none", fields |-> << >>, body |-> [f \in FieldNames |-> Undefined],
     record |-> << >>, conditions |-> << >>, values |-> << >>]

BuildFilter ==
    /\ cb.pc = "input"
    /\ LET conds == positionFilterConditions(cb.fields, cb.body, cb.record)
       IN  cb' = [cb EXCEPT !.pc = "built",
                            !.conditions = ConditionText(conds),
                            !.values = filterValues(conds)]
    /\ UNCHANGED <<table, nextId, req, budget, slots, plugins, positioning, store>>

(***************************************************************************)
(* SQL statements issued by the plugins.                                   *)
(***************************************************************************)
(* SELECT ... WHERE id = ?  (at most one row: the identifier is the key)   *)
SelectById(tbl, id) ==
    IF \E row \in tbl : row.id = id
    THEN << CHOOSE row \in tbl : row.id = id >>
    ELSE << >>

(* SELECT MAX(position) as maxPos FROM table WHERE <filter>: always one    *)
(* row; MAX over no row, or over NULL positions only, is NULL.             *)
SelectMaxPos(tbl, conds) ==
    LET ps == {row.position : row \in {x \in tbl : wherePositionFilter(x, conds)}}
             \ {Null}
    IN  << [maxPos |-> IF ps = {} THEN Null ELSE SetMax(ps)] >>

(* SELECT id, position FROM table WHERE id = ? AND <filter> *)
SelectInGroup(tbl, id, conds) ==
    IF \E row \in tbl : row.id = id /\ wherePositionFilter(row, conds)
    THEN LET found == CHOOSE row \in tbl : row.id = id
         IN  << [id |-> found.id, position |-> found.position] >>
    ELSE << >>

(* UPDATE table SET position = position + 1 WHERE position >= ? AND <filter> *)
ShiftUpdate(tbl, target, conds) ==
    { IF row.position # Null /\ row.position >= target /\ wherePositionFilter(row, conds)
      THEN [row EXCEPT !.position = @ + 1]
      ELSE row : row \in tbl }

(* Variant: one past the number of rows of the group, not one past the     *)
(* largest position.                                                       *)
placeAtEndCount(tbl, conds) ==
    Cardinality({x \in tbl : wherePositionFilter(x, conds)}) + 1

(* Variant: an empty group starts at position 0.                           *)
placeAtEndZeroBased(tbl, conds) ==
    LET result == SelectMaxPos(tbl, conds)
    IN  IF result = <<>> \/ LooseNull(result[1].maxPos)
        THEN 0
        ELSE result[1].maxPos + 1

(* placeAtEnd: const [rows] = await queryP(SELECT MAX...);                 *)
(* maxPos = rows?.maxPos ?? 0; body[positionField] = maxPos + 1            *)
placeAtEnd(tbl, conds) ==
    LET result == SelectMaxPos(tbl, conds)
        maxPos == IF result = <<>> THEN 0 ELSE Coalesce(result[1].maxPos, 0)
    IN  maxPos + 1

(* const [beforeRows] = await queryP(groupCheckSql);                       *)
(* const beforeIdItem = beforeRows || [];  beforeIdItem.length             *)
(* The first element of the result is a row object (or undefined): a row   *)
(* has the columns id and position and no length property, the fallback [] *)
(* has length 0.                                                           *)
beforeIdItemLength(result) ==
    IF result = <<>> THEN 0 ELSE Undefined

(* if (!beforeIdItem.length) -> place at end; else shift *)
ShiftsBefore(result) == Truthy(beforeIdItemLength(result))

(* const targetPosition = beforeIdItem[0][positionField] || 0 *)
targetPosition(result) == OrElse(result[1].position, 0)

(***************************************************************************)
(* The store: new JsonRestStores(options).                                 *)
(***************************************************************************)
(* The columns of the table.                                               *)
Columns == {"id", "category_id", "position"}

(* store.idProperty: "undefined" as the constructor leaves it (the name    *)
(* `${store.idProperty}` then puts into a statement, and the key           *)
(* params[store.idProperty] reads), or the id column once assigned.        *)
IdProperties == {"undefined", "id"}

(* The handle* options: the constructor's defaults (options.handleX ??     *)
(* false), or all set as in the usage example.  A flag matters to remote   *)
(* requests of its method only, and whether a request is remote is an      *)
(* input of each request: on the store with the defaults every request can *)
(* be refused or accepted, whatever the other requests were.               *)
HandleOptions == {FALSE, TRUE}

NewStore(idProperty, handle) ==
    [idProperty |-> idProperty, handlePost |-> handle, handlePut |-> handle,
     handleGet |-> handle, handleDelete |-> handle]

Stores == {NewStore(idProperty, handle) :
              idProperty \in IdProperties, handle \in HandleOptions}

(* A statement that names `${store.idProperty}` as a column is rejected    *)
(* by the storage when the table has no such column.                       *)
UnknownIdColumn == store.idProperty \notin Columns

(* request.params[key]: the requests carry params.id only.                 *)
ParamsAt(q, key) == IF key = "id" THEN q.paramsId ELSE Undefined

(* request.params[store.idProperty || 'id']                                *)
ParamsIdOrDefault(q) ==
    ParamsAt(q, IF store.idProperty = "undefined" THEN "id" ELSE store.idProperty)

(***************************************************************************)
(* Requests.  A request is the context { store, request } handed to the    *)
(* hooks: body, params.id (paramsId), record, and the position of the      *)
(* handler that is running on it.  directive remembers the body's          *)
(* beforeId as the caller sent it (the hook deletes the key).  A request   *)
(* made through the store also carries the store method, the stage and     *)
(* plugin callHook has reached, and the callbacks invoked so far.          *)
(* History kept with the request: queries counts the statements the        *)
(* positioning hook has issued, failedAt is the handler position at which  *)
(* a query was rejected, snap is the table as an insert before a record    *)
(* found it, prior describes the caller's previous request when that was   *)
(* such an insert whose INSERT statement was rejected, and installed is    *)
(* the number of plugins registered when the entry point was called.       *)
(***************************************************************************)
NoBody == [category_id |-> Undefined, beforeId |-> Undefined, position |-> Undefined]

IdleReq ==
    [op |-> "none", pc |-> "idle", body |-> NoBody, paramsId |-> Undefined,
     record |-> <<>>, oldPosition |-> Null, beforeRows |-> <<>>,
     directive |-> Undefined, existing |-> FALSE, newId |-> Undefined,
     error |-> "none", method |-> "none", stage |-> 0, plugin |-> 0,
     calls |-> <<>>, queries |-> 0, failedAt |-> "none", snap |-> {},
     prior |-> <<>>, installed |-> 0]

HookPcs == {"lookupOld", "placeAtEnd", "groupCheck", "beforeIdBranch"}
BackendPcs == {"onInsert", "onPutCheck", "onPutWrite", "refetch", "onFetch", "onDelete"}
QueryPcs == HookPcs \cup BackendPcs

Active == {r \in Req : req[r].pc # "idle"}

(* The storage rejects the statement the handler awaits: the handler       *)
(* throws at that await.                                                   *)
Rejected(q) ==
    [q EXCEPT !.pc = "failed", !.error = "QueryError", !.failedAt = q.pc,
              !.queries = IF q.pc \in HookPcs THEN @ + 1 ELSE @]

(***************************************************************************)
(* HookManager and the store's entry points.                               *)
(***************************************************************************)
(* The callbacks each plugin object defines.                               *)
PluginHooks(p) ==
    IF p = "positioning"
    THEN {"install", "onBeforeInsert", "onBeforePut"}
    ELSE {"install", "onFetch", "onInsert", "onPut", "onUpdate", "onDelete",
          "onQuery", "onCheckPermissions", "onAfterInsert"}

(* The stages each entry point hands to callHook, in order.                *)
Stages(method) ==
    CASE method = "post" ->
           <<"onBeforeValidate", "onCheckPermissions", "onValidate", "onInsert",
             "onAfterInsert">>
      [] method = "put" ->
           <<"onBeforeValidate", "onCheckPermissions", "onValidate", "onPut",
             "onAfterPut">>
      [] method = "get" -> <<"onFetch">>
      [] method = "delete" -> <<"onFetch", "onDelete", "onAfterDelete">>
      [] OTHER -> <<>>

(* Variant: only get tests the record.                                     *)
NotFoundAfterGetOnly(q, s) ==
    q.method = "get" /\ s = 1 /\ q.record = <<>>

(* get and delete: if (!request.record) throw NotFoundError, after onFetch *)
NotFoundAfter(q, s) ==
    q.method \in {"get", "delete"} /\ s = 1 /\ q.record = <<>>

(* The first query a callback awaits (or "return" when it awaits none).    *)
(* No stage of any entry point is named onBeforeInsert or onBeforePut, so  *)
(* callHook never starts the positioning plugin's callbacks.               *)
HandlerStart(q, hook) ==
    CASE hook = "onPut" -> [q EXCEPT !.pc = "onPutCheck"]
      [] hook = "onInsert" -> [q EXCEPT !.pc = "onInsert"]
      [] hook = "onFetch" ->
           [q EXCEPT !.pc = IF LooseNull(ParamsIdOrDefault(q))
                            THEN "return" ELSE "onFetch"]
      [] hook = "onDelete" ->
           [q EXCEPT !.pc = IF LooseNull(ParamsIdOrDefault(q))
                            THEN "return" ELSE "onDelete"]
      [] OTHER -> [q EXCEPT !.pc = "return"]

(* callHook: for (const plugin of this.plugins) if the plugin defines the  *)
(* hook, await it.  From stage s and plugin i, the next callback to run    *)
(* or, past the last plugin registered by now, the end of the stage: the   *)
(* entry point awaits callHook's promise (pc "await") and then makes the   *)
(* NotFound check, hands the next stage to callHook, or returns.           *)
RECURSIVE callHook(_, _, _)
callHook(q, s, i) ==
    IF i > Len(plugins)
    THEN IF NotFoundAfter(q, s)
         THEN [q EXCEPT !.pc = "failed", !.error = "NotFoundError",
                        !.stage = s, !.plugin = 0]
         ELSE IF s >= Len(Stages(q.method))
         THEN [q EXCEPT !.pc = "done", !.stage = s, !.plugin = 0]
         ELSE [q EXCEPT !.pc = "await", !.stage = s, !.plugin = 0]
    ELSE IF Stages(q.method)[s] \in PluginHooks(plugins[i])
    THEN HandlerStart([q EXCEPT !.stage = s, !.plugin = i,
                                !.calls = Append(@, <<plugins[i], Stages(q.method)[s]>>)],
                      Stages(q.method)[s])
    ELSE callHook(q, s, i + 1)

(* Variant: after a callback returns, the entry point goes on with the     *)
(* next stage.                                                             *)
HandlerReturnNextStage(q) ==
    IF q.method = "none" \/ q.stage >= Len(Stages(q.method))
    THEN [q EXCEPT !.pc = "done"]
    ELSE callHook(q, q.stage + 1, 1)

(* A callback has returned.  Through the store, callHook goes on with the  *)
(* next plugin; a callback the caller invoked itself ends the request.     *)
HandlerReturn(q) ==
    IF q.method = "none"
    THEN [q EXCEPT !.pc = "done"]
    ELSE callHook(q, q.stage, q.plugin + 1)

(***************************************************************************)
(* Positioning plugin: createPositioningPlugin.                            *)
(***************************************************************************)
(* The option values a caller may pass for connection and for table.       *)
ConnectionOptions == {"undefined", "null", "connection"}
TableOptions == {"undefined", "", "items"}

(* !x *)
Missing(x) == x \in {"undefined", "null", ""}

NotConstructed == [connection |-> "undefined", table |-> "undefined", result |-> "none"]

(* Variant: the table name is not checked.                                 *)
ConstructionOutcomeAnyTable(connection, tbl) ==
    IF Missing(connection)
    THEN "Error: Positioning plugin requires a MySQL connection"
    ELSE "plugin"

(* if (!connection) throw ...; if (!table) throw ...; return { hooks }     *)
ConstructionOutcome(connection, tbl) ==
    IF Missing(connection)
    THEN "Error: Positioning plugin requires a MySQL connection"
    ELSE IF Missing(tbl)
    THEN "Error: Positioning plugin requires a table name"
    ELSE "plugin"

Constructed ==
    [connection |-> "connection", table |-> "items",
     result |-> ConstructionOutcome("connection", "items")]

(* The caller constructs the plugin once.                                  *)
createPositioningPlugin ==
    /\ positioning.result = "none"
    /\ \E connection \in ConnectionOptions, tbl \in TableOptions :
          positioning' = [connection |-> connection, table |-> tbl,
                          result |-> ConstructionOutcome(connection, tbl)]
    /\ UNCHANGED <<table, nextId, req, budget, slots, plugins, cb, store>>

(***************************************************************************)
(* Positioning plugin: _calculatePosition, onBeforeInsert, onBeforePut.    *)
(***************************************************************************)
(* Variant: the directive key is left in the body.                         *)
HookReturnKeepsDirective(q) ==
    [q EXCEPT !.pc = IF q.op = "insert" THEN "onInsert" ELSE "onPutCheck"]

(* onBeforeInsert / onBeforePut after _calculatePosition returns: the      *)
(* directive key is deleted from the body.  The plugin runs right before   *)
(* the backend's onInsert / onPut (positioning.js:171-175): a caller that  *)
(* invoked the hook itself goes on with the backend's callback.            *)
HookReturn(q) ==
    [q EXCEPT !.body.beforeId = Undefined,
              !.pc = IF q.op = "insert" THEN "onInsert" ELSE "onPutCheck"]

(* Variant: an update without directive is placed last like an insert.     *)
DispatchAlwaysPlaceAtEnd(q) ==
    IF LooseNull(q.body[beforeIdField])
    THEN [q EXCEPT !.pc = "placeAtEnd"]
    ELSE [q EXCEPT !.pc = "groupCheck"]

(* Variant: the body is given a provisional position before the first      *)
(* query of a scenario is awaited.                                         *)
DispatchProvisional(q) ==
    LET beforeId == q.body[beforeIdField]
        isInsert == q.op = "insert"
        p == [q EXCEPT !.body.position = Coalesce(q.oldPosition, 0)]
    IN  IF beforeId = Undefined
        THEN IF isInsert \/ LooseNull(q.oldPosition)
             THEN [p EXCEPT !.pc = "placeAtEnd"]
             ELSE HookReturn([q EXCEPT !.body.position = q.oldPosition])
        ELSE IF beforeId = Null
             THEN [p EXCEPT !.pc = "placeAtEnd"]
             ELSE [p EXCEPT !.pc = "groupCheck"]

(* The three directive scenarios, up to the first query each one awaits.   *)
Dispatch(q) ==
    LET beforeId == q.body[beforeIdField]
        isInsert == q.op = "insert"
    IN  IF beforeId = Undefined
        THEN IF isInsert \/ LooseNull(q.oldPosition)
             THEN [q EXCEPT !.pc = "placeAtEnd"]
             ELSE HookReturn([q EXCEPT !.body.position = q.oldPosition])
        ELSE IF beforeId = Null
             THEN [q EXCEPT !.pc = "placeAtEnd"]
             ELSE [q EXCEPT !.pc = "groupCheck"]

(* Variant: an update looks its old position up whatever the record holds. *)
CalculatePositionStartAlwaysLookup(q) ==
    LET isInsert == q.op = "insert"
        fromRecord == IF isInsert \/ q.record = <<>>
                      THEN Null
                      ELSE q.record[1][positionField]
    IN  IF ~isInsert /\ Truthy(ParamsAt(q, store.idProperty))
        THEN [q EXCEPT !.oldPosition = fromRecord, !.pc = "lookupOld"]
        ELSE Dispatch([q EXCEPT !.oldPosition = fromRecord])

(* _calculatePosition up to its first await: the old position of an update *)
(* comes from request.record, else from a lookup by params[idProperty].    *)
CalculatePositionStart(q) ==
    LET isInsert == q.op = "insert"
        fromRecord == IF isInsert \/ q.record = <<>>
                      THEN Null
                      ELSE q.record[1][positionField]
    IN  IF ~isInsert /\ LooseNull(fromRecord)
           /\ Truthy(ParamsAt(q, store.idProperty))
        THEN [q EXCEPT !.oldPosition = fromRecord, !.pc = "lookupOld"]
        ELSE Dispatch([q EXCEPT !.oldPosition = fromRecord])

Conds(q) == filterConditions(q.body, q.record)

StoredMax == IF {row.position : row \in table} \ {Null} = {}
             THEN 0
             ELSE SetMax({row.position : row \in table} \ {Null})

(* Room for one more request: identifiers and positions stay in bounds.    *)
CanStart(r) ==
    /\ r \in slots
    /\ req[r].pc = "idle"
    /\ budget > 0
    /\ nextId + Cardinality(Active) <= MaxId
    /\ StoredMax + Cardinality(Active) < MaxPosition

(* The previous request of the caller, when this one repeats it: the same  *)
(* directive and partition key, sent again after the INSERT was rejected.  *)
Repeated(prior, cat, beforeId) ==
    IF /\ prior # <<>>
       /\ prior[1].directive = beforeId
       /\ prior[1].category_id = cat
    THEN prior
    ELSE <<>>

onBeforeInsert(r) ==
    /\ CanStart(r)
    /\ positioning.result = "plugin"
    /\ \E cat \in BodyKeyValues, beforeId \in Directives :
          req' = [req EXCEPT ![r] = CalculatePositionStart(
                    [IdleReq EXCEPT !.op = "insert",
                                    !.body.category_id = cat,
                                    !.body.beforeId = beforeId,
                                    !.directive = beforeId,
                                    !.snap = IF beforeId \in Ids THEN table ELSE {},
                                    !.prior = Repeated(req[r].prior, cat, beforeId)])]
    /\ budget' = budget - 1
    /\ UNCHANGED <<table, nextId, slots, plugins, positioning, cb, store>>

onBeforePut(r) ==
    /\ CanStart(r)
    /\ positioning.result = "plugin"
    /\ \E cat \in BodyKeyValues, beforeId \in Directives, id \in Ids,
          fetched \in BOOLEAN :
          req' = [req EXCEPT ![r] = CalculatePositionStart(
                    [IdleReq EXCEPT !.op = "put",
                                    !.body.category_id = cat,
                                    !.body.beforeId = beforeId,
                                    !.directive = beforeId,
                                    !.paramsId = id,
                                    !.record = IF fetched
                                               THEN SelectById(table, id)
                                               ELSE <<>>])]
    /\ budget' = budget - 1
    /\ UNCHANGED <<table, nextId, slots, plugins, positioning, cb, store>>

(* SELECT position FROM table WHERE id = params[idProperty] *)
LookupOldPosition(r) ==
    /\ req[r].pc = "lookupOld"
    /\ LET result == SelectById(table, ParamsAt(req[r], store.idProperty))
           old == IF result # <<>> THEN result[1][positionField]
                  ELSE req[r].oldPosition
       IN  req' = [req EXCEPT ![r] =
                     IF UnknownIdColumn
                     THEN Rejected(req[r])
                     ELSE Dispatch([req[r] EXCEPT !.oldPosition = old,
                                                  !.queries = @ + 1])]
    /\ UNCHANGED <<table, nextId, budget, slots, plugins, positioning, cb, store>>

PlaceAtEnd(r) ==
    /\ req[r].pc = "placeAtEnd"
    /\ req' = [req EXCEPT ![r] = HookReturn(
                 [req[r] EXCEPT !.body.position = placeAtEnd(table, Conds(req[r])),
                                !.queries = @ + 1])]
    /\ UNCHANGED <<table, nextId, budget, slots, plugins, positioning, cb, store>>

(* The group check names `${store.idProperty}` twice.                      *)
GroupCheck(r) ==
    /\ req[r].pc = "groupCheck"
    /\ req' = [req EXCEPT ![r] =
                 IF UnknownIdColumn
                 THEN Rejected(req[r])
                 ELSE [req[r] EXCEPT
                         !.beforeRows = SelectInGroup(table, req[r].body[beforeIdField],
                                                      Conds(req[r])),
                         !.queries = @ + 1,
                         !.pc = "beforeIdBranch"]]
    /\ UNCHANGED <<table, nextId, budget, slots, plugins, positioning, cb, store>>

(* Variant: any row the group check returns is shifted before, and the     *)
(* UPDATE leaves out the group predicate.                                  *)
BeforeIdOutcomeUnscoped(tbl, q) ==
    IF q.beforeRows = <<>>
    THEN [table |-> tbl, position |-> placeAtEnd(tbl, Conds(q))]
    ELSE [table |-> ShiftUpdate(tbl, targetPosition(q.beforeRows), <<>>),
          position |-> targetPosition(q.beforeRows)]

(* Variant: a row the group check returns is shifted before, the UPDATE    *)
(* testing position = ? in place of position >= ?.                         *)
BeforeIdOutcomeShiftsTargetOnly(tbl, q) ==
    IF q.beforeRows = <<>>
    THEN [table |-> tbl, position |-> placeAtEnd(tbl, Conds(q))]
    ELSE [table |-> { IF /\ row.position = targetPosition(q.beforeRows)
                         /\ wherePositionFilter(row, Conds(q))
                      THEN [row EXCEPT !.position = @ + 1]
                      ELSE row : row \in tbl },
          position |-> targetPosition(q.beforeRows)]

(* Variant: a row the group check returns is shifted before.               *)
BeforeIdOutcomeShifts(tbl, q) ==
    IF q.beforeRows = <<>>
    THEN [table |-> tbl, position |-> placeAtEnd(tbl, Conds(q))]
    ELSE [table |-> ShiftUpdate(tbl, targetPosition(q.beforeRows), Conds(q)),
          position |-> targetPosition(q.beforeRows)]

(* The outcome of scenario (3) once the group check has answered: the      *)
(* table and the body's position.  Nothing found: place at end.  Found:    *)
(* the shift UPDATE, then body[positionField] = targetPosition.            *)
BeforeIdOutcome(tbl, q) ==
    IF ~ShiftsBefore(q.beforeRows)
    THEN [table |-> tbl, position |-> placeAtEnd(tbl, Conds(q))]
    ELSE [table |-> ShiftUpdate(tbl, targetPosition(q.beforeRows), Conds(q)),
          position |-> targetPosition(q.beforeRows)]

BeforeIdBranch(r) ==
    /\ req[r].pc = "beforeIdBranch"
    /\ table' = BeforeIdOutcome(table, req[r]).table
    /\ req' = [req EXCEPT ![r] = HookReturn(
                 [req[r] EXCEPT !.body.position =
                                   BeforeIdOutcome(table, req[r]).position,
                                !.queries = @ + 1])]
    /\ UNCHANGED <<nextId, budget, slots, plugins, positioning, cb, store>>

(***************************************************************************)
(* MySQL backend plugin: onFetch, onInsert, onPut, onDelete.               *)
(***************************************************************************)
(* INSERT INTO table SET <body>: a column the body leaves out is NULL.     *)
InsertRow(body, id) ==
    [id |-> id,
     category_id |-> Coalesce(body.category_id, Null),
     position |-> Coalesce(body.position, Null)]

(* UPDATE table SET <body> WHERE id = ?: only the body's columns change.   *)
UpdateRow(row, body) ==
    [row EXCEPT !.category_id = IF body.category_id # Undefined
                                THEN body.category_id ELSE @,
                !.position = IF body.position # Undefined
                             THEN body.position ELSE @]

(* insertObject / updateObject = { ...request.body }: every key of the     *)
(* body is written as a column.  The directive is no column of the table   *)
(* (positioning.js:182), so a body that still carries it is rejected; so   *)
(* is a body with no key at all, SET ? being given nothing to set.         *)
WritableBody(body) ==
    /\ body[beforeIdField] = Undefined
    /\ \E column \in {"category_id", "position"} : body[column] # Undefined

onInsert(r) ==
    /\ req[r].pc = "onInsert"
    /\ IF WritableBody(req[r].body)
       THEN /\ nextId <= MaxId
            /\ table' = table \cup {InsertRow(req[r].body, nextId)}
            /\ nextId' = nextId + 1
            /\ req' = [req EXCEPT ![r].newId = nextId, ![r].pc = "refetch"]
       ELSE /\ req' = [req EXCEPT ![r] = Rejected(req[r])]
            /\ UNCHANGED <<table, nextId>>
    /\ UNCHANGED <<budget, slots, plugins, positioning, cb, store>>

onPutCheck(r) ==
    /\ req[r].pc = "onPutCheck"
    /\ req' = [req EXCEPT ![r] =
                 IF UnknownIdColumn
                 THEN Rejected(req[r])
                 ELSE [req[r] EXCEPT
                         !.existing = SelectById(table, ParamsIdOrDefault(req[r])) # <<>>,
                         !.pc = "onPutWrite"]]
    /\ UNCHANGED <<table, nextId, budget, slots, plugins, positioning, cb, store>>

onPutWrite(r) ==
    /\ req[r].pc = "onPutWrite"
    /\ IF ~WritableBody(req[r].body)
       THEN /\ req' = [req EXCEPT ![r] = Rejected(req[r])]
            /\ UNCHANGED <<table, nextId>>
       ELSE IF ~req[r].existing
       THEN /\ nextId <= MaxId
            /\ table' = table \cup {InsertRow(req[r].body, nextId)}
            /\ nextId' = nextId + 1
            /\ req' = [req EXCEPT ![r].newId = nextId, ![r].pc = "refetch"]
       ELSE /\ table' = { IF row.id = req[r].paramsId
                          THEN UpdateRow(row, req[r].body)
                          ELSE row : row \in table }
            /\ nextId' = nextId
            /\ req' = [req EXCEPT ![r].newId = req[r].paramsId, ![r].pc = "refetch"]
    /\ UNCHANGED <<budget, slots, plugins, positioning, cb, store>>

(* SELECT * FROM table WHERE id = newId; request.record = row *)
Refetch(r) ==
    /\ req[r].pc = "refetch"
    /\ req' = [req EXCEPT ![r] =
                 IF UnknownIdColumn
                 THEN Rejected(req[r])
                 ELSE HandlerReturn(
                        [req[r] EXCEPT !.record = SelectById(table, req[r].newId)])]
    /\ UNCHANGED <<table, nextId, budget, slots, plugins, positioning, cb, store>>

(* request.record = rows[0] || null *)
onFetch(r) ==
    /\ req[r].pc = "onFetch"
    /\ req' = [req EXCEPT ![r] =
                 IF UnknownIdColumn
                 THEN Rejected(req[r])
                 ELSE HandlerReturn(
                        [req[r] EXCEPT !.record =
                                          SelectById(table, ParamsIdOrDefault(req[r]))])]
    /\ UNCHANGED <<table, nextId, budget, slots, plugins, positioning, cb, store>>

(* DELETE FROM table WHERE id = ? *)
onDelete(r) ==
    /\ req[r].pc = "onDelete"
    /\ IF UnknownIdColumn
       THEN /\ table' = table
            /\ req' = [req EXCEPT ![r] = Rejected(req[r])]
       ELSE /\ table' = {row \in table : row.id # ParamsIdOrDefault(req[r])}
            /\ req' = [req EXCEPT ![r] = HandlerReturn(req[r])]
    /\ UNCHANGED <<nextId, budget, slots, plugins, positioning, cb, store>>

(* A callback that awaits no query returns.                                *)
EmptyHandler(r) ==
    /\ req[r].pc = "return"
    /\ req' = [req EXCEPT ![r] = HandlerReturn(req[r])]
    /\ UNCHANGED <<table, nextId, budget, slots, plugins, positioning, cb, store>>

(* The caller invokes the backend's onDelete on a record.                  *)
DeleteRecord(r) ==
    /\ r \in slots
    /\ req[r].pc = "idle"
    /\ budget > 0
    /\ \E id \in Ids :
          req' = [req EXCEPT ![r] = [IdleReq EXCEPT !.op = "delete",
                                                    !.paramsId = id,
                                                    !.pc = "onDelete"]]
    /\ budget' = budget - 1
    /\ UNCHANGED <<table, nextId, slots, plugins, positioning, cb, store>>

(* A query is rejected by the storage: the awaiting handler throws, and    *)
(* neither callHook nor the entry point catches it.                        *)
QueryFails(r) ==
    /\ req[r].pc \in QueryPcs
    /\ req' = [req EXCEPT ![r].pc = "failed", ![r].error = "QueryError",
                          ![r].failedAt = req[r].pc,
                          ![r].queries = IF req[r].pc \in HookPcs THEN @ + 1 ELSE @]
    /\ UNCHANGED <<table, nextId, budget, slots, plugins, positioning, cb, store>>

(* The request's promise settles; the caller may issue the next one.       *)
Uncommitted(q) ==
    IF /\ q.op = "insert"
       /\ q.method = "none"
       /\ q.directive \in Ids
       /\ q.pc = "failed"
       /\ q.failedAt = "onInsert"
    THEN << [directive |-> q.directive, category_id |-> q.body.category_id,
             snap |-> q.snap] >>
    ELSE << >>

Return(r) ==
    /\ req[r].pc \in {"done", "failed"}
    /\ req' = [req EXCEPT ![r] = [IdleReq EXCEPT !.prior = Uncommitted(req[r])]]
    /\ UNCHANGED <<table, nextId, budget, slots, plugins, positioning, cb, store>>

(***************************************************************************)
(* JsonRestStores: use, post, put, get, delete.                            *)
(***************************************************************************)
(* use(plugin): hookManager.register pushes the plugin at once, whether or *)
(* not it is registered already and whether or not a request is awaiting:  *)
(* the callHook of a request in flight iterates the same array.            *)
use(p) ==
    /\ Len(plugins) < MaxPlugins
    /\ p = "positioning" => positioning.result = "plugin"
    /\ plugins' = Append(plugins, p)
    /\ UNCHANGED <<table, nextId, req, budget, slots, positioning, cb, store>>

(* Every entry point begins with                                           *)
(*   if (!this.handleX && request.remote) throw new NotImplementedError()  *)
NotImplemented(q) ==
    [q EXCEPT !.pc = "failed", !.error = "NotImplementedError"]

(* The entry point awaits _validateParamsIfNeeded before its first stage.  *)
Enter(q) == [q EXCEPT !.pc = "await", !.stage = 0, !.installed = Len(plugins)]

(* post: its first statement after the handlePost test evaluates           *)
(* skipId=true, an assignment to an undeclared name in the strict-mode     *)
(* code of a class body: a ReferenceError, before any stage is dispatched. *)
post(r) ==
    /\ CanStart(r)
    /\ \E cat \in BodyKeyValues, beforeId \in Directives, remote \in BOOLEAN :
          LET q == [IdleReq EXCEPT !.op = "insert", !.method = "post",
                                   !.body.category_id = cat,
                                   !.body.beforeId = beforeId,
                                   !.directive = beforeId,
                                   !.installed = Len(plugins)]
          IN  req' = [req EXCEPT ![r] =
                        IF ~store.handlePost /\ remote
                        THEN NotImplemented(q)
                        ELSE [q EXCEPT !.pc = "failed",
                                       !.error = "ReferenceError"]]
    /\ budget' = budget - 1
    /\ UNCHANGED <<table, nextId, slots, plugins, positioning, cb, store>>

put(r) ==
    /\ CanStart(r)
    /\ \E cat \in BodyKeyValues, beforeId \in Directives, id \in Ids,
          remote \in BOOLEAN :
          LET q == [IdleReq EXCEPT !.op = "put", !.method = "put",
                                   !.body.category_id = cat,
                                   !.body.beforeId = beforeId,
                                   !.directive = beforeId,
                                   !.paramsId = id,
                                   !.installed = Len(plugins)]
          IN  req' = [req EXCEPT ![r] =
                        IF ~store.handlePut /\ remote
                        THEN NotImplemented(q)
                        ELSE Enter(q)]
    /\ budget' = budget - 1
    /\ UNCHANGED <<table, nextId, slots, plugins, positioning, cb, store>>

get(r) ==
    /\ CanStart(r)
    /\ \E id \in Ids \cup {Undefined}, remote \in BOOLEAN :
          LET q == [IdleReq EXCEPT !.op = "get", !.method = "get",
                                   !.paramsId = id,
                                   !.installed = Len(plugins)]
          IN  req' = [req EXCEPT ![r] =
                        IF ~store.handleGet /\ remote
                        THEN NotImplemented(q)
                        ELSE Enter(q)]
    /\ budget' = budget - 1
    /\ UNCHANGED <<table, nextId, slots, plugins, positioning, cb, store>>

delete(r) ==
    /\ CanStart(r)
    /\ \E id \in Ids \cup {Undefined}, remote \in BOOLEAN :
          LET q == [IdleReq EXCEPT !.op = "delete", !.method = "delete",
                                   !.paramsId = id,
                                   !.installed = Len(plugins)]
          IN  req' = [req EXCEPT ![r] =
                        IF ~store.handleDelete /\ remote
                        THEN NotImplemented(q)
                        ELSE Enter(q)]
    /\ budget' = budget - 1
    /\ UNCHANGED <<table, nextId, slots, plugins, positioning, cb, store>>

(* The promise the entry point awaits has resolved: it hands its next      *)
(* stage to callHook.                                                      *)
Resume(r) ==
    /\ req[r].pc = "await"
    /\ req' = [req EXCEPT ![r] = callHook(req[r], req[r].stage + 1, 1)]
    /\ UNCHANGED <<table, nextId, budget, slots, plugins, positioning, cb, store>>

(***************************************************************************)
(* Specifications.                                                         *)
(*   Spec: the plugins' callbacks in the order the positioning plugin      *)
(*     documents (its hook, then the backend's), one request at a time.    *)
(*   SpecConcurrent: the same with two requests in flight, their round     *)
(*     trips interleaved in any order.                                     *)
(*   SpecStore: requests made through the store's entry points, which      *)
(*     dispatch the stages with callHook over the registered plugins.      *)
(*   SpecBuilder: the Condition Builder applied to every field list, body  *)
(*     and record of the bounded input sets.                               *)
(***************************************************************************)
TwoRows ==
    {InsertRow([NoBody EXCEPT !.category_id = 5, !.position = 1], 1),
     InsertRow([NoBody EXCEPT !.category_id = 5, !.position = 2], 2)}

(* The store right after construction, before createPositioningPlugin is   *)
(* called: hookManager.plugins is [].  In these runs the caller invokes    *)
(* the plugins' callbacks itself; nothing is registered with the store.    *)
Init ==
    /\ table = {}
    /\ nextId = 1
    /\ req = [r \in Req |-> IdleReq]
    /\ budget = MaxRequests
    /\ slots = {1}
    /\ plugins = <<>>
    /\ positioning = NotConstructed
    /\ cb = NoBuilder
    /\ store \in {NewStore(idProperty, FALSE) : idProperty \in IdProperties}

(* The concurrent runs start from a group that two earlier inserts left.   *)
InitConcurrent ==
    /\ table = TwoRows
    /\ nextId = 3
    /\ req = [r \in Req |-> IdleReq]
    /\ budget = MaxConcurrentRequests
    /\ slots = Req
    /\ plugins = <<>>
    /\ positioning = NotConstructed
    /\ cb = NoBuilder
    /\ store \in {NewStore(idProperty, FALSE) : idProperty \in IdProperties}

(* A store right after construction: no plugin registered yet.             *)
InitStore ==
    /\ table = TwoRows
    /\ nextId = 3
    /\ req = [r \in Req |-> IdleReq]
    /\ budget = MaxStoreRequests
    /\ slots = {1}
    /\ plugins = <<>>
    /\ positioning = Constructed
    /\ cb = NoBuilder
    /\ store \in Stores

(* The Condition Builder handed a field list, a body and a record.         *)
InitBuilder ==
    /\ table = {}
    /\ nextId = 1
    /\ req = [r \in Req |-> IdleReq]
    /\ budget = 0
    /\ slots = {}
    /\ plugins = <<"positioning", "mysql">>
    /\ positioning = Constructed
    /\ cb \in [pc : {"input"}, fields : FilterLists, body : BuilderBodies,
                record : BuilderRecords, conditions : {<< >>}, values : {<< >>}]
    /\ store = NewStore("undefined", FALSE)

Next ==
    \/ createPositioningPlugin
    \/ \E r \in Req :
        \/ onBeforeInsert(r)
        \/ onBeforePut(r)
        \/ LookupOldPosition(r)
        \/ PlaceAtEnd(r)
        \/ GroupCheck(r)
        \/ BeforeIdBranch(r)
        \/ onInsert(r)
        \/ onPutCheck(r)
        \/ onPutWrite(r)
        \/ Refetch(r)
        \/ DeleteRecord(r)
        \/ onDelete(r)
        \/ QueryFails(r)
        \/ Return(r)

NextStore ==
    \/ \E p \in {"positioning", "mysql"} : use(p)
    \/ \E r \in Req :
        \/ post(r)
        \/ put(r)
        \/ get(r)
        \/ delete(r)
        \/ onPutCheck(r)
        \/ onPutWrite(r)
        \/ Refetch(r)
        \/ onFetch(r)
        \/ onDelete(r)
        \/ EmptyHandler(r)
        \/ Resume(r)
        \/ QueryFails(r)
        \/ Return(r)

Spec == Init /\ [][Next]_vars

SpecConcurrent == InitConcurrent /\ [][Next]_vars

SpecStore == InitStore /\ [][NextStore]_vars

SpecBuilder == InitBuilder /\ [][BuildFilter]_vars

(***************************************************************************)
(* Properties.                                                             *)
(***************************************************************************)
(* The group a request targets: the rows whose partition key equals the    *)
(* request's (from the body, else from the fetched record), NULL being a   *)
(* key value of its own.                                                   *)
GroupKey(q) == Coalesce(FilterValue(q.body, q.record, "category_id"), Null)

Group(tbl, q) == {row \in tbl : row.category_id = GroupKey(q)}

(* The step in which the positioning hook of request r returns.            *)
HookCompletes(r) ==
    /\ req[r].pc \in HookPcs \cup {"idle"}
    /\ req'[r].pc \in {"onInsert", "onPutCheck"}

(* p is one past the largest position of the rows G (1 when G is empty).   *)
OnePastMax(p, G) ==
    /\ \A row \in G : row.position < p
    /\ p = 1 \/ \E row \in G : row.position = p - 1

(* C1: the pre-insert hook with directive = the id of a record X at        *)
(* position P of the group writes P into the body and adds 1 to the        *)
(* position of every record of the group at position >= P, leaving the     *)
(* records below P where they are.                                         *)
InsertBeforeShiftsFromTarget ==
    [][\A r \in Req :
         ( /\ HookCompletes(r)
           /\ req'[r].op = "insert"
           /\ req'[r].directive \in Ids
           /\ \E x \in Group(table, req'[r]) : x.id = req'[r].directive )
         => LET q == req'[r]
                X == CHOOSE x \in Group(table, q) : x.id = q.directive
            IN  /\ q.body.position = X.position
                /\ \A row \in Group(table, q) :
                      \E moved \in table' :
                         /\ moved.id = row.id
                         /\ moved.position = IF row.position >= X.position
                                             THEN row.position + 1
                                             ELSE row.position]_vars

(* C2 as stated: the pre-insert hook with an absent or null directive      *)
(* writes N + 1, N the number of records of the group, and changes no      *)
(* stored position.                                                        *)
PlaceLastIsCountPlusOne ==
    [][\A r \in Req :
         ( /\ HookCompletes(r)
           /\ req'[r].op = "insert"
           /\ req'[r].directive \in {Undefined, Null} )
         => /\ req'[r].body.position = Cardinality(Group(table, req'[r])) + 1
            /\ table' = table]_vars

(* C2 amended: the pre-insert hook with an absent or null directive writes *)
(* one past the largest position of the group (1 for an empty group, and   *)
(* N + 1 when the group's positions are exactly 1..N) and changes no       *)
(* stored position.                                                        *)
PlaceLastIsOnePastMax ==
    [][\A r \in Req :
         ( /\ HookCompletes(r)
           /\ req'[r].op = "insert"
           /\ req'[r].directive \in {Undefined, Null} )
         => LET G == Group(table, req'[r])
                p == req'[r].body.position
            IN  /\ OnePastMax(p, G)
                /\ {row.position : row \in G} = 1..Cardinality(G)
                      => p = Cardinality(G) + 1
                /\ table' = table]_vars

(* C2 witness: a place-last insert hook has returned for a group whose     *)
(* positions have a gap, so that one past the maximum is not N + 1.        *)
PlaceLastAfterGapWitness ==
    \E r \in Req :
        /\ req[r].pc = "onInsert"
        /\ req[r].directive \in {Undefined, Null}
        /\ Cardinality(Group(table, req[r])) >= 1
        /\ OnePastMax(req[r].body.position, Group(table, req[r]))
        /\ req[r].body.position # Cardinality(Group(table, req[r])) + 1

(* C3: once every request has completed, no two records of one group hold  *)
(* the same position.                                                      *)
UniquePositionsInGroup ==
    (\A r \in Req : req[r].pc \in {"idle", "done"})
    => \A a, b \in table :
          (a.id # b.id /\ a.category_id = b.category_id)
          => a.position # b.position

(* C4: two place-last inserts into the same group that ran concurrently    *)
(* never leave their two new records at the same position.                 *)
ConcurrentPlaceLastDistinct ==
    \A r1, r2 \in Req :
        ( /\ r1 # r2
          /\ \A r \in {r1, r2} :
                /\ req[r].op = "insert"
                /\ req[r].directive \in {Undefined, Null}
                /\ req[r].pc \in {"refetch", "done"} )
        => \A a, b \in table :
              ( /\ a.id = req[r1].newId
                /\ b.id = req[r2].newId
                /\ a.category_id = b.category_id )
              => a.position # b.position

(* C5: two inserts before a record of the same group that ran concurrently *)
(* leave the group free of duplicated positions, as either serial order    *)
(* of the two would.                                                       *)
ConcurrentBeforeNoDuplicate ==
    \A r1, r2 \in Req :
        ( /\ r1 # r2
          /\ GroupKey(req[r1]) = GroupKey(req[r2])
          /\ \A r \in {r1, r2} :
                /\ req[r].op = "insert"
                /\ req[r].directive \in Ids
                /\ \E x \in Group(table, req[r]) : x.id = req[r].directive
                /\ req[r].pc = "done" )
        => \A a, b \in Group(table, req[r1]) :
              a.id # b.id => a.position # b.position

(* C7: in a request made on a store with both plugins registered, the      *)
(* backend's onInsert / onPut is started only after the positioning        *)
(* plugin's onBeforeInsert / onBeforePut was invoked in the same request.  *)
PositioningHookBeforeBackend ==
    \A r \in Req :
        {plugins[i] : i \in 1..req[r].installed} = {"positioning", "mysql"}
        => \A i \in DOMAIN req[r].calls :
              req[r].calls[i] \in {<<"mysql", "onInsert">>, <<"mysql", "onPut">>}
              => \E j \in 1..(i - 1) :
                    req[r].calls[j] \in {<<"positioning", "onBeforeInsert">>,
                                         <<"positioning", "onBeforePut">>}

(* C8: a hook whose directive names an identifier that is no record of the *)
(* group (in no record, or in a record of another group) shifts nothing,   *)
(* raises no error (its group check, when the storage is up, is answered   *)
(* and the hook goes on) and writes what an explicit null writes: one past *)
(* the largest position of the group.                                      *)
DanglingDirectivePlacesLast ==
    [][\A r \in Req :
         /\ ( /\ HookCompletes(r)
              /\ req'[r].directive \in Ids
              /\ ~ \E x \in Group(table, req'[r]) : x.id = req'[r].directive )
            => /\ OnePastMax(req'[r].body.position, Group(table, req'[r]))
               /\ table' = table
               /\ req'[r].error = "none"
         /\ ( /\ GroupCheck(r)
              /\ ~ \E x \in Group(table, req[r]) : x.id = req[r].directive )
            => req'[r].pc = "beforeIdBranch"]_vars

(* C9: no step of the pre-insert or pre-update hook (a step the request    *)
(* itself takes while in the hook) changes a record whose partition key    *)
(* differs from the request's group, NULL included.                        *)
HookLeavesOtherGroups ==
    [][\A r \in Req :
         ((req[r].pc \in HookPcs /\ req'[r] # req[r]) \/ HookCompletes(r))
         => \A row \in table :
               row.category_id # GroupKey(req'[r]) => row \in table']_vars

(* C9 witness: a hook with an identifier directive has returned while a    *)
(* record of another group (one of the two keyed NULL) sits at or above    *)
(* the position the hook assigned.                                         *)
OtherGroupAboveWitness ==
    \E r \in Req :
        /\ req[r].pc \in {"onInsert", "onPutCheck"}
        /\ req[r].directive \in Ids
        /\ \E row \in table :
              /\ row.category_id # GroupKey(req[r])
              /\ Null \in {row.category_id, GroupKey(req[r])}
              /\ row.position >= req[r].body.position
              /\ row.id = req[r].directive

(* C10: a pre-update hook with an absent directive and a fetched record at *)
(* position K writes K into the body, issues no query and changes no       *)
(* stored position.                                                        *)
UpdateKeepsFetchedPosition ==
    [][\A r \in Req :
         ( /\ req[r].pc = "idle"
           /\ req'[r].op = "put"
           /\ req'[r].directive = Undefined
           /\ req'[r].record # <<>>
           /\ ~LooseNull(req'[r].record[1].position) )
         => /\ req'[r].pc = "onPutCheck"
            /\ req'[r].body.position = req'[r].record[1].position
            /\ table' = table]_vars

(* C10 witness: such a hook has returned with K below the last position of *)
(* the group.                                                              *)
UpdateKeepsPositionWitness ==
    \E r \in Req :
        /\ req[r].pc = "onPutCheck"
        /\ req[r].op = "put"
        /\ req[r].directive = Undefined
        /\ req[r].record # <<>>
        /\ req[r].body.position = req[r].record[1].position
        /\ \E row \in Group(table, req[r]) : row.position > req[r].body.position

(* C11: when an insert before a record is sent again with the same         *)
(* directive and partition key after its INSERT was rejected, the second   *)
(* run of the pre-insert hook starts from the table the first run started  *)
(* from, and when it returns every record stands at most one position      *)
(* above where it stood before the first run.                              *)
NoDoubleShift ==
    [][\A r \in Req :
         ( /\ HookCompletes(r)
           /\ req'[r].op = "insert"
           /\ req'[r].prior # <<>> )
         => /\ req'[r].snap = req'[r].prior[1].snap
            /\ \A old \in req'[r].prior[1].snap : \A now \in table' :
                  now.id = old.id => now.position <= old.position + 1]_vars

(* C11 witness: the second run has returned, its directive naming a record *)
(* of the request's group that has a record above it.                      *)
SecondRunWitness ==
    \E r \in Req :
        /\ req[r].pc = "onInsert"
        /\ req[r].prior # <<>>
        /\ \E x, y \in Group(req[r].prior[1].snap, req[r]) :
              /\ x.id = req[r].directive
              /\ y.position > x.position

(* C13: whenever the pre-insert or pre-update hook returns, whatever the   *)
(* directive was (absent, null, an identifier found in the group or not),  *)
(* the body holds a position under positionField and no longer holds the   *)
(* beforeIdField key.                                                      *)
WriteBackAndStrip ==
    [][\A r \in Req :
         HookCompletes(r)
         => /\ ~LooseNull(req'[r].body[positionField])
            /\ req'[r].body[beforeIdField] = Undefined
            /\ req'[r].error = "none"]_vars

(* C13 witness: a pre-update hook has returned whose directive named a     *)
(* record of the request's group; the body holds a position and no         *)
(* directive.                                                              *)
StrippedAfterFoundWitness ==
    \E r \in Req :
        /\ req[r].pc = "onPutCheck"
        /\ req[r].directive \in Ids
        /\ \E x \in Group(table, req[r]) : x.id = req[r].directive
        /\ req[r].body[beforeIdField] = Undefined
        /\ ~LooseNull(req[r].body[positionField])

(* C14: the place-last query writes the largest position of the group as   *)
(* it stands when the query runs, plus 1, and 1 when the group is empty;   *)
(* every position a hook writes into a body is at least 1 (the stored      *)
(* positions being at least 1).                                            *)
PlaceLastIsMaxPlusOne ==
    [][\A r \in Req :
         /\ (req[r].pc = "placeAtEnd" /\ HookCompletes(r))
            => LET G == Group(table, req'[r])
                   p == req'[r].body[positionField]
               IN  /\ G = {} => p = 1
                   /\ G # {} => p = SetMax({row.position : row \in G}) + 1
         /\ HookCompletes(r)
            => /\ req'[r].body[positionField] >= 1
               /\ \A row \in table' : row.position >= 1]_vars

(* C14 witness: a place-last hook has returned with position 1 for an      *)
(* empty group while another group holds records.                          *)
FirstOfEmptyGroupWitness ==
    \E r \in Req :
        /\ req[r].pc \in {"onInsert", "onPutCheck"}
        /\ req[r].directive = Null
        /\ Group(table, req[r]) = {}
        /\ table # {}
        /\ req[r].body[positionField] = 1

(* C15: a plugin constructed without a connection or without a table name  *)
(* is never returned: the construction ends in an Error, no hook of it     *)
(* ever starts and it issues no query.                                     *)
ConfigurationErrorThrows ==
    ( /\ positioning.result # "none"
      /\ Missing(positioning.connection) \/ Missing(positioning.table) )
    => /\ positioning.result \in
             {"Error: Positioning plugin requires a MySQL connection",
              "Error: Positioning plugin requires a table name"}
       /\ \A r \in Req :
             /\ req[r].op \notin {"insert", "put"}
             /\ req[r].pc \notin HookPcs
             /\ req[r].queries = 0

(* C15 witness: the construction with a connection and an empty table name *)
(* has thrown, and the caller has gone on to use the backend.              *)
MissingTableWitness ==
    /\ positioning.connection = "connection"
    /\ positioning.table = ""
    /\ positioning.result = "Error: Positioning plugin requires a table name"
    /\ \E r \in Req : req[r].pc = "done"

(* C16: when the backend writes a record R whose pre-update hook ran with  *)
(* directive = the id of another record X of R's group, R then stands      *)
(* below X with no record of the group between them, and no other record   *)
(* of the group stands where R stood.                                      *)
MovePlacesImmediatelyBefore ==
    [][\A r \in Req :
         ( /\ req[r].pc = "onPutWrite"
           /\ req'[r].pc = "refetch"
           /\ req[r].existing
           /\ req[r].directive \in Ids \ {req[r].paramsId}
           /\ \E x, old \in Group(table, req[r]) :
                 x.id = req[r].directive /\ old.id = req[r].paramsId )
         => LET q == req[r]
                old == CHOOSE row \in table : row.id = q.paramsId
                R == CHOOSE row \in table' : row.id = q.paramsId
                X == CHOOSE row \in table' : row.id = q.directive
                others == Group(table', q) \ {R, X}
            IN  /\ R.position < X.position
                /\ \A o \in others :
                      ~(R.position <= o.position /\ o.position <= X.position)
                /\ \A o \in others \cup {X} : o.position # old.position]_vars

(* The pre-update hook that keeps the fetched record's position: absent    *)
(* directive, a fetched record, a position in it.                          *)
KeepsFetched(q) ==
    /\ q.op = "put"
    /\ q.directive = Undefined
    /\ q.record # <<>>
    /\ ~LooseNull(q.record[1][positionField])

(* C17 as stated: every execution of the pre-insert or pre-update hook     *)
(* that returns has issued at least one and at most three queries.         *)
RoundTripsOneToThree ==
    [][\A r \in Req :
         HookCompletes(r) => req'[r].queries \in 1..3]_vars

(* C17 amended: every execution of the hook, returning or failing, has     *)
(* issued at most three queries, one per step; a returning execution has   *)
(* issued none exactly when it keeps the fetched record's position, and a  *)
(* failing one has issued at least the query that failed.                  *)
RoundTripsAtMostThree ==
    [][\A r \in Req :
         /\ HookCompletes(r)
            => /\ req'[r].queries \in 0..3
               /\ req'[r].queries = 0 <=> KeepsFetched(req'[r])
         /\ (req[r].pc \in HookPcs /\ req'[r].pc = "failed")
            => req'[r].queries \in 1..3
         /\ req[r].pc \in HookPcs
            => req'[r].queries \in {req[r].queries, req[r].queries + 1}]_vars

(* C17 witness: a hook has returned after three queries (old position      *)
(* lookup, group check, maximum of the group).                             *)
ThreeRoundTripsWitness ==
    \E r \in Req :
        /\ req[r].pc = "onPutCheck"
        /\ req[r].queries = 3
        /\ req[r].directive \in Ids

(* C18: for every field list, body and record, the Condition Builder       *)
(* builds one condition per field, in order: on the body's value when the  *)
(* body defines the field (an explicit null included), else on the         *)
(* record's; IS NULL for a null or absent value, otherwise an equality     *)
(* whose placeholder is bound to that value, the values being passed in    *)
(* field order.  The predicate of an empty field list matches every row.   *)
(* The builder is defined on every input.                                  *)
ConditionBuilderBuilds ==
    LET chosen(i) == IF cb.body[cb.fields[i]] # Undefined
                     THEN cb.body[cb.fields[i]]
                     ELSE IF cb.record = << >> THEN Undefined
                     ELSE cb.record[1][cb.fields[i]]
        tested(i) == chosen(i) \notin {Null, Undefined}
        rows == [FieldNames -> {Null, 5, 6}]
    IN  /\ cb.pc = "input" => ENABLED BuildFilter
        /\ cb.pc = "built"
           => /\ Len(cb.conditions) = Len(cb.fields)
              /\ \A i \in 1..Len(cb.fields) :
                    /\ cb.conditions[i].field = cb.fields[i]
                    /\ cb.conditions[i].isNull = ~tested(i)
              /\ Len(cb.values) = Cardinality({i \in 1..Len(cb.fields) : tested(i)})
              /\ \A i \in 1..Len(cb.fields) :
                    tested(i)
                    => cb.values[Cardinality({j \in 1..i : tested(j)})] = chosen(i)
              /\ \A row \in rows :
                    WhereBound(row, cb.conditions, cb.values)
                    <=> \A i \in 1..Len(cb.fields) :
                           row[cb.fields[i]] = IF tested(i) THEN chosen(i) ELSE Null
              /\ cb.fields = << >>
                    => \A row \in rows : WhereBound(row, cb.conditions, cb.values)

(* C18 witness: built for two fields, the first an explicit null of the    *)
(* body over a record that holds a value, the second absent from the body  *)
(* and taken from the record: an IS NULL test, then an equality bound to   *)
(* the record's value.                                                     *)
NullThenRecordValueWitness ==
    /\ cb.pc = "built"
    /\ cb.fields = <<"category_id", "owner_id">>
    /\ cb.body["category_id"] = Null
    /\ cb.body["owner_id"] = Undefined
    /\ cb.record # << >>
    /\ cb.record[1]["category_id"] = 6
    /\ cb.record[1]["owner_id"] = 6
    /\ cb.conditions[1].isNull
    /\ ~cb.conditions[2].isNull
    /\ cb.values = <<6>>

(* C19: a pre-update hook with an absent directive writes the fetched      *)
(* record's position when the request carries one; otherwise the position  *)
(* of the stored row whose id is params' id, found by one lookup;          *)
(* otherwise (no fetched record, no such row) one past the largest         *)
(* position of the group, after the lookup and the group's maximum query.  *)
(* It changes no stored position.                                          *)
UpdateFallback ==
    [][\A r \in Req :
         ( /\ HookCompletes(r)
           /\ req'[r].op = "put"
           /\ req'[r].directive = Undefined )
         => LET q == req'[r]
                p == q.body[positionField]
                stored == {row \in table : row.id = q.paramsId}
            IN  /\ table' = table
                /\ IF KeepsFetched(q)
                   THEN p = q.record[1][positionField] /\ q.queries = 0
                   ELSE IF stored # {}
                   THEN (\A row \in stored : p = row.position) /\ q.queries = 1
                   ELSE OnePastMax(p, Group(table, q)) /\ q.queries = 2]_vars

(* C20: when a query of the positioning hook is rejected, the request      *)
(* fails with the error of that query at the position of that query, the   *)
(* body has been given no position and no row has changed; from then on    *)
(* the request issues nothing (the rejected query is not sent again, no    *)
(* other query follows) until its failure is returned to the caller.       *)
StorageFailurePropagates ==
    [][\A r \in Req :
         /\ (req[r].pc \in HookPcs /\ req'[r].pc = "failed")
            => /\ req'[r].error = "QueryError"
               /\ req'[r].failedAt = req[r].pc
               /\ req'[r].queries = req[r].queries + 1
               /\ req'[r].body[positionField] = Undefined
               /\ table' = table
         /\ (req[r].pc = "failed" /\ req[r].failedAt \in HookPcs)
            => \/ req'[r] = req[r] /\ table' = table
               \/ req'[r].pc = "idle" /\ table' = table]_vars

(* C20 witness: the third query of a hook (the maximum of the group, after *)
(* the old position lookup and the group check) was rejected.              *)
ThirdQueryRejectedWitness ==
    \E r \in Req :
        /\ req[r].pc = "failed"
        /\ req[r].failedAt = "beforeIdBranch"
        /\ req[r].queries = 3
        /\ req[r].body[positionField] = Undefined

(* Plugin i defines the callback of stage s of the entry point.            *)
DefinesStage(method, s, i) == Stages(method)[s] \in PluginHooks(plugins[i])

(* The positions at which a callback of the store's plugins returns.       *)
ReturnPcs == {"refetch", "onFetch", "onDelete", "return"}

(* C21: within an entry point of the store, a callback starts only when    *)
(* the entry point hands its next stage to callHook or in the step that    *)
(* completes the previous callback of the stage; it is the callback of the *)
(* next plugin, in registration order, that defines the stage's hook, the  *)
(* plugins between being those that do not define it; a stage ends only    *)
(* when no defining plugin is left among those registered by then; a       *)
(* callback that fails starts no other callback and the request stays      *)
(* failed, with its error, until the failure is returned to the caller.    *)
HookDispatchInOrder ==
    [][\A r \in Req :
         LET q == req[r]
             n == req'[r]
             from == IF q.pc = "await" THEN 1 ELSE q.plugin + 1
             skipped(s, lo, hi) ==
                 \A i \in lo..hi : ~DefinesStage(n.method, s, i)
         IN  /\ (n.pc # "idle" /\ n.calls # q.calls)
                => /\ q.pc \in ReturnPcs \cup {"await"}
                   /\ n.stage \in 1..Len(Stages(n.method))
                   /\ n.plugin \in 1..Len(plugins)
                   /\ DefinesStage(n.method, n.stage, n.plugin)
                   /\ n.calls = Append(q.calls, <<plugins[n.plugin],
                                                  Stages(n.method)[n.stage]>>)
                   /\ n.stage = IF q.pc = "await" THEN q.stage + 1 ELSE q.stage
                   /\ n.plugin >= from
                   /\ skipped(n.stage, from, n.plugin - 1)
             /\ ( /\ q.pc \in ReturnPcs \cup {"await"}
                  /\ n.calls = q.calls
                  /\ \/ n.pc = "done"
                     \/ n.pc = "await" /\ n # q
                     \/ n.pc = "failed" /\ n.error = "NotFoundError" )
                => /\ n.stage = IF q.pc = "await" THEN q.stage + 1 ELSE q.stage
                   /\ skipped(n.stage, from, Len(plugins))
             /\ (q.pc \notin {"idle", "failed"} /\ n.pc = "failed")
                => /\ n.calls = q.calls
                   /\ n.error # "none"
             /\ q.pc = "failed"
                => n = q \/ n.pc = "idle"]_vars

(* C21 witness: with the backend registered twice and the positioning      *)
(* plugin between, a delete has run onFetch of both backends, then         *)
(* onDelete of the first, whose query was rejected: the second onDelete    *)
(* was not started.                                                        *)
SecondCallbackNotStartedWitness ==
    \E r \in Req :
        /\ plugins = <<"mysql", "positioning", "mysql">>
        /\ req[r].method = "delete"
        /\ req[r].pc = "failed"
        /\ req[r].failedAt = "onDelete"
        /\ req[r].plugin = 1
        /\ req[r].calls = << <<"mysql", "onFetch">>, <<"mysql", "onFetch">>,
                             <<"mysql", "onDelete">> >>

(* C22: no step of an insert or of a move (its hook, in whatever directive *)
(* branch, or its write) changes the order by position of two records of   *)
(* one group other than the record being written, in any state that        *)
(* completed requests have led to.                                         *)
OrderPreserved ==
    [][\A r \in Req :
         ( /\ req'[r] # req[r]
           /\ req'[r].op \in {"insert", "put"} )
         => \A a, b \in table : \A a2, b2 \in table' :
               ( /\ a2.id = a.id
                 /\ b2.id = b.id
                 /\ a.id # b.id
                 /\ req'[r].paramsId \notin {a.id, b.id}
                 /\ a.category_id = b.category_id )
               => /\ a2.category_id = b2.category_id
                  /\ a.position < b.position <=> a2.position < b2.position]_vars

(* C22 witness: a move before a record of the group has been written, the  *)
(* group holding two other records at different positions.                 *)
MoveAmongOthersWitness ==
    \E r \in Req :
        /\ req[r].op = "put"
        /\ req[r].pc = "done"
        /\ req[r].existing
        /\ req[r].directive \in Ids \ {req[r].paramsId}
        /\ \E a, b, R \in Group(table, req[r]) :
              /\ R.id = req[r].paramsId
              /\ R.position = req[r].body[positionField]
              /\ a.id = req[r].directive
              /\ b.id \notin {a.id, R.id}
              /\ a.position < b.position

(* C23: in a get or a delete through the store, every onFetch callback     *)
(* comes before any onDelete or onAfterDelete callback; onDelete and       *)
(* onAfterDelete are invoked, and the request succeeds, only with a record *)
(* on the request; a request the store accepts (it is not a remote request *)
(* of a method the store does not handle, refused before any stage) that   *)
(* fails with no query rejected fails with NotFound, with no record on it  *)
(* and no onDelete or onAfterDelete invoked.                               *)
MissingRecordIsNotFound ==
    \A r \in Req :
        req[r].method \in {"get", "delete"}
        => LET q == req[r]
               deletes == {i \in DOMAIN q.calls :
                              q.calls[i][2] \in {"onDelete", "onAfterDelete"}}
               fetches == {i \in DOMAIN q.calls : q.calls[i][2] = "onFetch"}
           IN  /\ \A i \in fetches, j \in deletes : i < j
               /\ deletes # {} => q.record # <<>>
               /\ q.pc = "done" => q.record # <<>>
               /\ q.pc = "failed"
                  => \/ q.error = "QueryError" /\ q.failedAt \in QueryPcs
                     \/ q.error = "NotImplementedError" /\ q.calls = <<>>
                     \/ /\ q.error = "NotFoundError"
                        /\ q.record = <<>>
                        /\ deletes = {}

(* C23 witness: a delete of an id that no row holds has failed with        *)
(* NotFound after the backend's onFetch, the only callback invoked.        *)
DeleteMissingWitness ==
    \E r \in Req :
        /\ req[r].method = "delete"
        /\ req[r].pc = "failed"
        /\ req[r].error = "NotFoundError"
        /\ req[r].paramsId \in Ids
        /\ \A row \in table : row.id # req[r].paramsId
        /\ req[r].calls = << <<"mysql", "onFetch">> >>

====
